---- MODULE Spec2Model ----
(***************************************************************************)
(* A model of golang/sshtunnel/ssh_tunnel.go: one SSHTunnel value, the      *)
(* client thread that calls ForwardTunnel/ReverseTunnel and Close on it,    *)
(* the supervisory goroutines those calls start, and the proxy goroutine    *)
(* started for every accepted connection.  Every read or write of a field   *)
(* of SSHTunnel that another goroutine may touch (closed, sshClient,        *)
(* listener, mx, wg) is a step of its own, because the code takes no lock   *)
(* around them (only sshConnect holds mx).  The secure session, the         *)
(* listeners and the peers are collaborators: their answers are chosen      *)
(* nondeterministically.  A nil dereference is a Go panic, which ends the   *)
(* process: crashed records it and no goroutine steps afterwards.           *)
(***************************************************************************)
EXTENDS Naturals, FiniteSets

\* Bounds of the model.
MaxConns == 2       \* connections that ever arrive at a listener
MaxCloses == 2      \* calls of Close the client makes
MaxStarts == 2      \* calls of ForwardTunnel/ReverseTunnel of a client that calls it again
AgainConns == 0     \* connections that ever arrive at the tunnel of such a client
FairConns == 1      \* connections that ever arrive in the runs checked for liveness
MaxSess == 2        \* secure sessions that exist (open or still referenced) at once
MaxLis == 2         \* listeners that exist (open or still referenced) at once

Tasks == 1..(MaxStarts + MaxConns)
Sess == 1..MaxSess
Lis == 1..MaxLis

VARIABLES
    closed,     \* SSHTunnel.closed
    sshClient,  \* SSHTunnel.sshClient: 0 is nil, else a session
    listener,   \* SSHTunnel.listener: 0 is nil, else a listener
    mx,         \* SSHTunnel.mx: TRUE when locked
    wg,         \* SSHTunnel.wg: the WaitGroup's counter
    crashed,    \* "no", or the call on a nil handle that panicked and ended the
                \* process; the goroutine that made it is left at "panic"
    orient,     \* "forward" (ForwardTunnel) or "reverse" (ReverseTunnel)
    sess,       \* the state of every secure session: free, ok, stale, closed
    lis,        \* every listener: [st: free|open|closed, sess: its session or 0]
    kind,       \* what every goroutine is: none (not started), loop, proxy
    pc,         \* where every goroutine is
    ret,        \* where a goroutine inside sshConnect returns to
    lh,         \* the listener a supervisory goroutine is blocked in Accept on
    px,         \* the connections of every proxy goroutine
    cli,        \* the client thread: [pc, calls: Close calls begun, done: returned]
    nStart,     \* calls of ForwardTunnel/ReverseTunnel the client has yet to make
    nConn,      \* connections that have yet to arrive
    connected   \* whether an ssh.Dial of sshConnect has succeeded since the start

vars == <<closed, sshClient, listener, mx, wg, crashed, orient, sess, lis,
          kind, pc, ret, lh, px, cli, nStart, nConn, connected>>

\* A proxy goroutine's connections before it exists.  dl is the deadline of lConn
\* (set by line 236 / 321), rdl the deadline of rConn (no line sets one).
NoPx == [lconn |-> "none", rconn |-> "none", sess |-> 0, dl |-> "none", rdl |-> "none",
         cp1 |-> "idle", cp2 |-> "idle",
         tries |-> 0, reconns |-> 0]

NewSSHTunnel ==
    /\ closed = FALSE
    /\ sshClient = 0
    /\ listener = 0
    /\ mx = FALSE
    /\ wg = 0
    /\ crashed = "no"
    /\ sess = [i \in Sess |-> "free"]
    /\ lis = [l \in Lis |-> [st |-> "free", sess |-> 0]]
    /\ kind = [t \in Tasks |-> "none"]
    /\ pc = [t \in Tasks |-> "none"]
    /\ ret = [t \in Tasks |-> "none"]
    /\ lh = [t \in Tasks |-> 0]
    /\ px = [t \in Tasks |-> NoPx]
    /\ cli = [pc |-> "idle", calls |-> 0, done |-> 0]
    /\ connected = FALSE

\* One tunnel in either orientation.  Its client is main (part_000 lines 35-45), which
\* starts it once, or a client that calls ForwardTunnel/ReverseTunnel again.
Init ==
    /\ NewSSHTunnel
    /\ orient \in {"forward", "reverse"}
    /\ \E plan \in {<<1, MaxConns>>, <<MaxStarts, AgainConns>>} :
          nStart = plan[1] /\ nConn = plan[2]

Running == crashed = "no"

\* A session or listener that is closed and that no handle names any more is gone.
SessAfter(s, client) ==
    [i \in Sess |-> IF s[i] = "closed" /\ i # client THEN "free" ELSE s[i]]

LisAfter(ls, lsn, handles) ==
    [l \in Lis |-> IF ls[l].st = "closed" /\ l # lsn /\ \A t \in Tasks : handles[t] # l
                   THEN [st |-> "free", sess |-> 0] ELSE ls[l]]

\* A copy that counts as over as soon as it was started: a wg.Wait of line 261 / 346
\* that waits for nothing.
EndedOrRunning(cp) == cp # "idle"

\* px[t].cp1 is io.Copy(lConn, rConn), line 246 / 331: idle, run, or how it ended:
\* eof (the remote peer closed), closed (the channel's session was closed), werr (its
\* Write to lConn failed).  px[t].cp2 is io.Copy(rConn, lConn), line 255 / 340: idle,
\* run, eof (the local peer closed), timeout (lConn's deadline passed), werr (its
\* Write to rConn failed).  A Read that can end does so at once.
Ended(cp) == cp \notin {"idle", "run"}

\* (*ssh.Client).Close on session i: its channels and its listeners end with it.
SessClosed(i) == [sess EXCEPT ![i] = "closed"]
LisOfClosed(i) ==
    [l \in Lis |-> IF lis[l].st = "open" /\ lis[l].sess = i
                   THEN [lis[l] EXCEPT !.st = "closed"] ELSE lis[l]]
PxOfClosed(i) ==
    [t \in Tasks |-> IF px[t].sess = i
                     THEN [px[t] EXCEPT !.sess = 0,
                                        !.cp1 = IF @ = "run" THEN "closed" ELSE @]
                     ELSE px[t]]


\* The smallest session / listener that is free, as a set (empty when none is).
FreeSess == {i \in Sess : sess[i] = "free" /\ \A j \in Sess : sess[j] = "free" => i <= j}
FreeLis == {l \in Lis : lis[l].st = "free" /\ \A k \in Lis : lis[k].st = "free" => l <= k}
\* The address is bound by at most one listener at a time: Listen fails while one is open.
PortFree == \A l \in Lis : lis[l].st # "open"

\* The goroutine the next go statement starts.
NewTask == Cardinality({t \in Tasks : kind[t] # "none"}) + 1

Goto(t, where) == pc' = [pc EXCEPT ![t] = where]

(***************************************************************************)
(* closeSSH and closeListener, lines 80-100.  The nil check, the Close()   *)
(* call (which reads the field again) and the store of nil are three       *)
(* accesses of an unprotected field.                                       *)
(***************************************************************************)
\* line 82: c.sshClient.Close()
closeSSH_Close ==
    IF sshClient = 0
    THEN crashed' = "sshClient.Close" /\ UNCHANGED <<sess, lis, px>>
    ELSE /\ sess' = SessClosed(sshClient)
         /\ lis' = LisAfter(LisOfClosed(sshClient), listener, lh)
         /\ px' = PxOfClosed(sshClient)
         /\ UNCHANGED crashed

\* line 86: c.sshClient = nil
closeSSH_Nil ==
    /\ sshClient' = 0
    /\ sess' = SessAfter(sess, 0)

\* line 93: c.listener.Close()
closeListener_Close ==
    IF listener = 0
    THEN crashed' = "listener.Close" /\ UNCHANGED lis
    ELSE lis' = [lis EXCEPT ![listener].st = "closed"] /\ UNCHANGED crashed

\* line 97: c.listener = nil
closeListener_Nil ==
    /\ listener' = 0
    /\ lis' = LisAfter(lis, 0, lh)

(***************************************************************************)
(* sshConnect, lines 102-116, run by goroutine t; it returns to ret[t].    *)
(***************************************************************************)
\* sshConnect entered without taking the mutex: what line 104 would be if Lock never
\* blocked.
sshConnect_NoLock(t) ==
    /\ Running /\ pc[t] = "sc_lock"
    /\ mx' = TRUE
    /\ Goto(t, "sc_chk")
    /\ UNCHANGED <<closed, sshClient, listener, wg, crashed, orient, sess, lis,
                   kind, ret, lh, px, cli, nStart, nConn, connected>>

\* line 104: c.mx.Lock()
sshConnect_Lock(t) ==
    /\ Running /\ pc[t] = "sc_lock"
    /\ mx = FALSE
    /\ mx' = TRUE
    /\ Goto(t, "sc_chk")
    /\ UNCHANGED <<closed, sshClient, listener, wg, crashed, orient, sess, lis,
                   kind, ret, lh, px, cli, nStart, nConn, connected>>

\* line 105, closeSSH line 81: if c.sshClient != nil
sshConnect_closeSSH(t) ==
    /\ Running /\ pc[t] = "sc_chk"
    /\ Goto(t, IF sshClient # 0 THEN "sc_close" ELSE "sc_dial")
    /\ UNCHANGED <<closed, sshClient, listener, mx, wg, crashed, orient, sess, lis,
                   kind, ret, lh, px, cli, nStart, nConn, connected>>

sshConnect_closeSSH_Close(t) ==
    /\ Running /\ pc[t] = "sc_close"
    /\ closeSSH_Close
    /\ Goto(t, IF sshClient = 0 THEN "panic" ELSE "sc_nil")
    /\ UNCHANGED <<closed, sshClient, listener, mx, wg, orient,
                   kind, ret, lh, cli, nStart, nConn, connected>>

sshConnect_closeSSH_Nil(t) ==
    /\ Running /\ pc[t] = "sc_nil"
    /\ closeSSH_Nil
    /\ Goto(t, "sc_dial")
    /\ UNCHANGED <<closed, listener, mx, wg, crashed, orient, lis,
                   kind, ret, lh, px, cli, nStart, nConn, connected>>

\* lines 107-115 and the deferred Unlock of line 103: ssh.Dial answers with a new
\* session, which is stored, or with an error.
sshConnect_Dial(t) ==
    /\ Running /\ pc[t] = "sc_dial"
    /\ \/ \E i \in FreeSess :
            /\ sshClient' = i
            /\ sess' = SessAfter([sess EXCEPT ![i] = "ok"], i)
            /\ connected' = TRUE
       \/ UNCHANGED <<sshClient, sess, connected>>
    /\ mx' = FALSE
    /\ Goto(t, ret[t])
    /\ UNCHANGED <<closed, listener, wg, crashed, orient, lis,
                   kind, ret, lh, px, cli, nStart, nConn>>

sshConnect(t) ==
    \/ sshConnect_Lock(t)
    \/ sshConnect_closeSSH(t)
    \/ sshConnect_closeSSH_Close(t)
    \/ sshConnect_closeSSH_Nil(t)
    \/ sshConnect_Dial(t)

(***************************************************************************)
(* The client thread: ForwardTunnel/ReverseTunnel (lines 194-199, 279-284) *)
(* and Close (lines 51-56).                                                *)
(***************************************************************************)
\* lines 197-198 / 282-283: c.wg.Add(1); go func() {...}: nothing looks at a
\* started flag, every call starts a supervisory goroutine.
StartTunnel ==
    /\ Running /\ cli.pc = "idle"
    /\ nStart > 0 /\ NewTask \in Tasks
    /\ wg' = wg + 1
    /\ nStart' = nStart - 1
    /\ kind' = [kind EXCEPT ![NewTask] = "loop"]
    /\ pc' = [pc EXCEPT ![NewTask] = "sc_lock"]
    /\ ret' = [ret EXCEPT ![NewTask] = "outer"]
    /\ UNCHANGED <<closed, sshClient, listener, mx, crashed, orient, sess, lis,
                   lh, px, cli, nConn, connected>>

ForwardTunnel == orient = "forward" /\ StartTunnel
ReverseTunnel == orient = "reverse" /\ StartTunnel

\* line 52: c.closed = true
Close ==
    /\ Running /\ cli.pc = "idle"
    /\ cli.calls < MaxCloses
    /\ closed' = TRUE
    /\ cli' = [cli EXCEPT !.pc = "cl_chk", !.calls = @ + 1]
    /\ UNCHANGED <<sshClient, listener, mx, wg, crashed, orient, sess, lis,
                   kind, pc, ret, lh, px, nStart, nConn, connected>>

\* line 53, closeInternal line 77, closeListener line 92
Close_closeListener ==
    /\ Running /\ cli.pc = "cl_chk"
    /\ cli' = [cli EXCEPT !.pc = IF listener # 0 THEN "cl_close" ELSE "ssh_chk"]
    /\ UNCHANGED <<closed, sshClient, listener, mx, wg, crashed, orient, sess, lis,
                   kind, pc, ret, lh, px, nStart, nConn, connected>>

Close_closeListener_Close ==
    /\ Running /\ cli.pc = "cl_close"
    /\ closeListener_Close
    /\ cli' = [cli EXCEPT !.pc = IF listener = 0 THEN "panic" ELSE "cl_nil"]
    /\ UNCHANGED <<closed, sshClient, listener, mx, wg, orient, sess,
                   kind, pc, ret, lh, px, nStart, nConn, connected>>

Close_closeListener_Nil ==
    /\ Running /\ cli.pc = "cl_nil"
    /\ closeListener_Nil
    /\ cli' = [cli EXCEPT !.pc = "ssh_chk"]
    /\ UNCHANGED <<closed, sshClient, mx, wg, crashed, orient, sess,
                   kind, pc, ret, lh, px, nStart, nConn, connected>>

\* closeInternal line 78, closeSSH line 81
Close_closeSSH ==
    /\ Running /\ cli.pc = "ssh_chk"
    /\ cli' = [cli EXCEPT !.pc = IF sshClient # 0 THEN "ssh_close" ELSE "wait"]
    /\ UNCHANGED <<closed, sshClient, listener, mx, wg, crashed, orient, sess, lis,
                   kind, pc, ret, lh, px, nStart, nConn, connected>>

Close_closeSSH_Close ==
    /\ Running /\ cli.pc = "ssh_close"
    /\ closeSSH_Close
    /\ cli' = [cli EXCEPT !.pc = IF sshClient = 0 THEN "panic" ELSE "ssh_nil"]
    /\ UNCHANGED <<closed, sshClient, listener, mx, wg, orient,
                   kind, pc, ret, lh, nStart, nConn, connected>>

Close_closeSSH_Nil ==
    /\ Running /\ cli.pc = "ssh_nil"
    /\ closeSSH_Nil
    /\ cli' = [cli EXCEPT !.pc = "wait"]
    /\ UNCHANGED <<closed, listener, mx, wg, crashed, orient, lis,
                   kind, pc, ret, lh, px, nStart, nConn, connected>>

\* A Wait that returns whatever the counter is: Close without line 54.
WaitGroupNoWait == wg >= 0

\* line 54: c.wg.Wait() returns when the counter is zero; then Close returns.
WaitGroupDone == wg = 0

Close_Wait ==
    /\ Running /\ cli.pc = "wait"
    /\ WaitGroupDone
    /\ cli' = [cli EXCEPT !.pc = "idle", !.done = @ + 1]
    /\ UNCHANGED <<closed, sshClient, listener, mx, wg, crashed, orient, sess, lis,
                   kind, pc, ret, lh, px, nStart, nConn, connected>>

Client ==
    \/ ForwardTunnel
    \/ ReverseTunnel
    \/ Close
    \/ Close_closeListener
    \/ Close_closeListener_Close
    \/ Close_closeListener_Nil
    \/ Close_closeSSH
    \/ Close_closeSSH_Close
    \/ Close_closeSSH_Nil
    \/ Close_Wait


(***************************************************************************)
(* The supervisory goroutine t of ForwardTunnel (lines 198-276) and of     *)
(* ReverseTunnel (lines 283-361).  It starts in sshConnect (line 203/288). *)
(***************************************************************************)
\* line 205 / 290: for !c.closed
OuterLoop(t) ==
    /\ Running /\ pc[t] = "outer"
    /\ Goto(t, IF closed THEN "exit"
               ELSE IF orient = "forward" THEN "listen" ELSE "sl_chk")
    /\ UNCHANGED <<closed, sshClient, listener, mx, wg, crashed, orient, sess, lis,
                   kind, ret, lh, px, cli, nStart, nConn, connected>>

\* net.Listen or (*ssh.Client).Listen answers with a new listener, which is stored in
\* c.listener (line 156 / 173); s is the session it is bound through, 0 for net.Listen.
ListenOk(t, s) ==
    /\ PortFree
    /\ \E l \in FreeLis :
          /\ listener' = l
          /\ lis' = LisAfter([lis EXCEPT ![l] = [st |-> "open", sess |-> s]], l, lh)
    /\ Goto(t, "inner")

\* lines 206-210, netListen lines 148-158
netListen(t) ==
    /\ Running /\ pc[t] = "listen"
    /\ \/ ListenOk(t, 0)
       \/ Goto(t, "sleepL") /\ UNCHANGED <<listener, lis>>
    /\ UNCHANGED <<closed, sshClient, mx, wg, crashed, orient, sess,
                   kind, ret, lh, px, cli, nStart, nConn, connected>>

\* sshListen line 162: if c.sshClient != nil
sshListen(t) ==
    /\ Running /\ pc[t] = "sl_chk"
    /\ Goto(t, IF sshClient # 0 THEN "sl_listen1" ELSE "sleepL")
    /\ UNCHANGED <<closed, sshClient, listener, mx, wg, crashed, orient, sess, lis,
                   kind, ret, lh, px, cli, nStart, nConn, connected>>

\* sshListen lines 163-165: c.sshClient.Listen; on an error, sshConnect
sshListen_Listen1(t) ==
    /\ Running /\ pc[t] = "sl_listen1"
    /\ IF sshClient = 0
       THEN crashed' = "sshClient.Listen" /\ Goto(t, "panic") /\ UNCHANGED <<listener, lis, ret>>
       ELSE /\ UNCHANGED crashed
            /\ \/ sess[sshClient] = "ok" /\ ListenOk(t, sshClient) /\ UNCHANGED ret
               \/ /\ Goto(t, "sc_lock")
                  /\ ret' = [ret EXCEPT ![t] = "sl_listen2"]
                  /\ UNCHANGED <<listener, lis>>
    /\ UNCHANGED <<closed, sshClient, mx, wg, orient, sess,
                   kind, lh, px, cli, nStart, nConn, connected>>

\* sshListen lines 166-170: the second c.sshClient.Listen, after sshConnect
sshListen_Listen2(t) ==
    /\ Running /\ pc[t] = "sl_listen2"
    /\ IF sshClient = 0
       THEN crashed' = "sshClient.Listen" /\ Goto(t, "panic") /\ UNCHANGED <<listener, lis>>
       ELSE /\ UNCHANGED crashed
            /\ \/ sess[sshClient] = "ok" /\ ListenOk(t, sshClient)
               \/ Goto(t, "sleepL") /\ UNCHANGED <<listener, lis>>
    /\ UNCHANGED <<closed, sshClient, mx, wg, orient, sess,
                   kind, ret, lh, px, cli, nStart, nConn, connected>>

\* line 208 / 293: time.Sleep(c.attemptSleepTime); continue
SleepListen(t) ==
    /\ Running /\ pc[t] = "sleepL"
    /\ Goto(t, "outer")
    /\ UNCHANGED <<closed, sshClient, listener, mx, wg, crashed, orient, sess, lis,
                   kind, ret, lh, px, cli, nStart, nConn, connected>>

\* line 212 / 297: for !c.closed
InnerLoop(t) ==
    /\ Running /\ pc[t] = "inner"
    /\ Goto(t, IF closed THEN "outer" ELSE "acc_chk")
    /\ UNCHANGED <<closed, sshClient, listener, mx, wg, crashed, orient, sess, lis,
                   kind, ret, lh, px, cli, nStart, nConn, connected>>

\* accept line 181: if c.listener != nil; else the error of line 191
accept(t) ==
    /\ Running /\ pc[t] = "acc_chk"
    /\ Goto(t, IF listener # 0 THEN "acc_call" ELSE "cl_chk")
    /\ UNCHANGED <<closed, sshClient, listener, mx, wg, crashed, orient, sess, lis,
                   kind, ret, lh, px, cli, nStart, nConn, connected>>

\* accept line 182: c.listener.Accept() reads the field again and blocks on that listener
accept_Call(t) ==
    /\ Running /\ pc[t] = "acc_call"
    /\ IF listener = 0
       THEN crashed' = "listener.Accept" /\ Goto(t, "panic") /\ UNCHANGED lh
       ELSE /\ lh' = [lh EXCEPT ![t] = listener]
            /\ Goto(t, "accepting")
            /\ UNCHANGED crashed
    /\ UNCHANGED <<closed, sshClient, listener, mx, wg, orient, sess, lis,
                   kind, ret, px, cli, nStart, nConn, connected>>

\* Whether a connection can arrive at listener l / whether its Accept fails.
CanArrive(l) ==
    /\ lis[l].st = "open"
    /\ lis[l].sess # 0 => sess[lis[l].sess] = "ok"
AcceptFails(l) ==
    \/ lis[l].st # "open"
    \/ lis[l].sess # 0 /\ sess[lis[l].sess] = "stale"

\* A supervisory goroutine that proxies the accepted connection itself: it takes
\* the next connection only when no proxy is under way (lines 220-221 without the go).
accept_Inline(t) ==
    /\ Running /\ pc[t] = "accepting"
    /\ nConn > 0 /\ NewTask \in Tasks
    /\ CanArrive(lh[t])
    /\ \A p \in Tasks : kind[p] = "proxy" => pc[p] = "done"
    /\ LET p == NewTask IN
          /\ kind' = [kind EXCEPT ![p] = "proxy"]
          /\ px' = [px EXCEPT ![p] =
                       IF orient = "forward"
                       THEN [NoPx EXCEPT !.lconn = "open"]
                       ELSE [NoPx EXCEPT !.rconn = "open", !.sess = lis[lh[t]].sess]]
          /\ pc' = [pc EXCEPT ![t] = "inner",
                              ![p] = IF orient = "forward" THEN "dial_chk" ELSE "netdial"]
    /\ nConn' = nConn - 1
    /\ wg' = wg + 1
    /\ lh' = [lh EXCEPT ![t] = 0]
    /\ lis' = LisAfter(lis, listener, lh')
    /\ UNCHANGED <<closed, sshClient, listener, mx, crashed, orient, sess,
                   ret, cli, nStart, connected>>

\* Accept returns a connection; lines 220-221 / 305-306: c.wg.Add(1); go func(conn)
accept_Ok(t) ==
    /\ Running /\ pc[t] = "accepting"
    /\ nConn > 0 /\ NewTask \in Tasks
    /\ CanArrive(lh[t])
    /\ LET p == NewTask IN
          /\ kind' = [kind EXCEPT ![p] = "proxy"]
          /\ px' = [px EXCEPT ![p] =
                       IF orient = "forward"
                       THEN [NoPx EXCEPT !.lconn = "open"]
                       ELSE [NoPx EXCEPT !.rconn = "open", !.sess = lis[lh[t]].sess]]
          /\ pc' = [pc EXCEPT ![t] = "inner",
                              ![p] = IF orient = "forward" THEN "dial_chk" ELSE "netdial"]
    /\ nConn' = nConn - 1
    /\ wg' = wg + 1
    /\ lh' = [lh EXCEPT ![t] = 0]
    /\ lis' = LisAfter(lis, listener, lh')
    /\ UNCHANGED <<closed, sshClient, listener, mx, crashed, orient, sess,
                   ret, cli, nStart, connected>>

\* Accept returns an error (lines 186-188): the listener was closed or its session is lost
accept_Err(t) ==
    /\ Running /\ pc[t] = "accepting"
    /\ AcceptFails(lh[t])
    /\ lh' = [lh EXCEPT ![t] = 0]
    /\ lis' = LisAfter(lis, listener, lh')
    /\ Goto(t, "cl_chk")
    /\ UNCHANGED <<closed, sshClient, listener, mx, wg, crashed, orient, sess,
                   kind, ret, px, cli, nStart, nConn, connected>>

\* An accept failure after which the listener is left as it is: lines 216-217 without
\* line 215.
Loop_closeListener_Skip(t) ==
    /\ Running /\ pc[t] = "cl_chk"
    /\ Goto(t, "sleepA")
    /\ UNCHANGED <<closed, sshClient, listener, mx, wg, crashed, orient, sess, lis,
                   kind, ret, lh, px, cli, nStart, nConn, connected>>

\* line 215 / 300: c.closeListener(), line 92
Loop_closeListener(t) ==
    /\ Running /\ pc[t] = "cl_chk"
    /\ Goto(t, IF listener # 0 THEN "cl_close" ELSE "sleepA")
    /\ UNCHANGED <<closed, sshClient, listener, mx, wg, crashed, orient, sess, lis,
                   kind, ret, lh, px, cli, nStart, nConn, connected>>

Loop_closeListener_Close(t) ==
    /\ Running /\ pc[t] = "cl_close"
    /\ closeListener_Close
    /\ Goto(t, IF listener = 0 THEN "panic" ELSE "cl_nil")
    /\ UNCHANGED <<closed, sshClient, listener, mx, wg, orient, sess,
                   kind, ret, lh, px, cli, nStart, nConn, connected>>

Loop_closeListener_Nil(t) ==
    /\ Running /\ pc[t] = "cl_nil"
    /\ closeListener_Nil
    /\ Goto(t, "sleepA")
    /\ UNCHANGED <<closed, sshClient, mx, wg, crashed, orient, sess,
                   kind, ret, lh, px, cli, nStart, nConn, connected>>

\* lines 216-217 / 301-302: time.Sleep(c.attemptSleepTime); break
SleepAccept(t) ==
    /\ Running /\ pc[t] = "sleepA"
    /\ Goto(t, "outer")
    /\ UNCHANGED <<closed, sshClient, listener, mx, wg, crashed, orient, sess, lis,
                   kind, ret, lh, px, cli, nStart, nConn, connected>>

\* line 275 and the deferred c.wg.Done() of line 199 / 284
LoopExit(t) ==
    /\ Running /\ pc[t] = "exit"
    /\ wg' = wg - 1
    /\ Goto(t, "done")
    /\ UNCHANGED <<closed, sshClient, listener, mx, crashed, orient, sess, lis,
                   kind, ret, lh, px, cli, nStart, nConn, connected>>

\* The steps of the supervisory goroutine that wait for nothing but the scheduler.
Loop(t) ==
    \/ OuterLoop(t)
    \/ netListen(t)
    \/ sshListen(t)
    \/ sshListen_Listen1(t)
    \/ sshListen_Listen2(t)
    \/ SleepListen(t)
    \/ InnerLoop(t)
    \/ accept(t)
    \/ accept_Call(t)
    \/ accept_Err(t)
    \/ Loop_closeListener(t)
    \/ Loop_closeListener_Close(t)
    \/ Loop_closeListener_Nil(t)
    \/ SleepAccept(t)
    \/ LoopExit(t)

Supervisor(t) == Loop(t) \/ accept_Ok(t)


(***************************************************************************)
(* The proxy goroutine t of one accepted connection: lines 221-271         *)
(* (forward: lConn accepted, rConn dialed by sshDial) and 306-356          *)
(* (reverse: rConn accepted, lConn dialed by netDial).  rConn is always a  *)
(* channel of a secure session; px[t].sess is that session while it is     *)
(* open, and 0 once it was closed, which ends the channel.                 *)
(***************************************************************************)
\* The dial failed: lines 226-231 / 311-316 close the accepted connection.
DialFailed(t) ==
    /\ px' = [px EXCEPT ![t] = IF orient = "forward"
                               THEN [@ EXCEPT !.lconn = "closed"]
                               ELSE [@ EXCEPT !.rconn = "closed", !.sess = 0]]
    /\ Goto(t, "sleep")

\* sshDial line 131: if c.sshClient != nil; else the error of lines 144-145
sshDial(t) ==
    /\ Running /\ pc[t] = "dial_chk"
    /\ IF sshClient # 0
       THEN Goto(t, "dial1") /\ UNCHANGED px
       ELSE DialFailed(t)
    /\ UNCHANGED <<closed, sshClient, listener, mx, wg, crashed, orient, sess, lis,
                   kind, ret, lh, cli, nStart, nConn, connected>>

\* c.sshClient.Dial on the session the field names now: a channel of it, or an error.
DialOk(t) ==
    /\ sess[sshClient] = "ok"
    /\ px' = [px EXCEPT ![t].rconn = "open", ![t].sess = sshClient, ![t].tries = @ + 1]
    /\ Goto(t, "setdl")

\* sshDial lines 132-134: the first Dial; on an error, sshConnect
sshDial_Dial1(t) ==
    /\ Running /\ pc[t] = "dial1"
    /\ IF sshClient = 0
       THEN crashed' = "sshClient.Dial" /\ Goto(t, "panic") /\ UNCHANGED <<ret, px>>
       ELSE /\ UNCHANGED crashed
            /\ \/ DialOk(t) /\ UNCHANGED ret
               \/ /\ sess[sshClient] # "ok"
                  /\ px' = [px EXCEPT ![t].tries = @ + 1, ![t].reconns = @ + 1]
                  /\ Goto(t, "sc_lock")
                  /\ ret' = [ret EXCEPT ![t] = "dial2"]
    /\ UNCHANGED <<closed, sshClient, listener, mx, wg, orient, sess, lis,
                   kind, lh, cli, nStart, nConn, connected>>

\* sshDial lines 135-139: the second Dial, after sshConnect
sshDial_Dial2(t) ==
    /\ Running /\ pc[t] = "dial2"
    /\ IF sshClient = 0
       THEN crashed' = "sshClient.Dial" /\ Goto(t, "panic") /\ UNCHANGED px
       ELSE /\ UNCHANGED crashed
            /\ \/ DialOk(t)
               \/ /\ sess[sshClient] # "ok"
                  /\ px' = [px EXCEPT ![t].tries = @ + 1, ![t].lconn = "closed"]
                  /\ Goto(t, "sleep")
    /\ UNCHANGED <<closed, sshClient, listener, mx, wg, orient, sess, lis,
                   kind, ret, lh, cli, nStart, nConn, connected>>

\* line 309, netDial lines 118-127: net.Dial answers with a connection or an error
netDial(t) ==
    /\ Running /\ pc[t] = "netdial"
    /\ \/ /\ px' = [px EXCEPT ![t].lconn = "open", ![t].tries = @ + 1]
          /\ Goto(t, "setdl")
       \/ DialFailed(t)
    /\ UNCHANGED <<closed, sshClient, listener, mx, wg, crashed, orient, sess, lis,
                   kind, ret, lh, cli, nStart, nConn, connected>>

\* lines 231-232 / 316-317: time.Sleep(c.attemptSleepTime); return, with the deferred Done
SleepDial(t) ==
    /\ Running /\ pc[t] = "sleep"
    /\ wg' = wg - 1
    /\ px' = [px EXCEPT ![t] = [NoPx EXCEPT !.lconn = px[t].lconn, !.rconn = px[t].rconn]]
    /\ Goto(t, "done")
    /\ UNCHANGED <<closed, sshClient, listener, mx, crashed, orient, sess, lis,
                   kind, ret, lh, cli, nStart, nConn, connected>>

\* lines 236-259 / 321-344: lConn.SetDeadline, then both copies are started
SetDeadline(t) ==
    /\ Running /\ pc[t] = "setdl"
    /\ px' = [px EXCEPT ![t].dl = "set",
                         ![t].cp1 = IF px[t].sess = 0 THEN "closed" ELSE "run",
                         ![t].cp2 = "run"]
    /\ Goto(t, "copy")
    /\ UNCHANGED <<closed, sshClient, listener, mx, wg, crashed, orient, sess, lis,
                   kind, ret, lh, cli, nStart, nConn, connected>>

\* A Write to lConn fails after its peer closed or its deadline passed; a Write to
\* rConn fails after its session or its peer closed.
LWriteFails(t) == px[t].cp2 \in {"eof", "timeout"}
RWriteFails(t) == px[t].cp1 \in {"eof", "closed"}

\* lines 261-270 / 346-355 and the deferred Done: wg.Wait(), lConn.Close(), rConn.Close()
CloseBoth(t) ==
    /\ Running /\ pc[t] = "copy"
    /\ Ended(px[t].cp1) /\ Ended(px[t].cp2)
    /\ px' = [px EXCEPT ![t] = [NoPx EXCEPT !.lconn = "closed", !.rconn = "closed"]]
    /\ wg' = wg - 1
    /\ Goto(t, "done")
    /\ UNCHANGED <<closed, sshClient, listener, mx, crashed, orient, sess, lis,
                   kind, ret, lh, cli, nStart, nConn, connected>>

Proxy(t) ==
    \/ sshDial(t)
    \/ sshDial_Dial1(t)
    \/ sshDial_Dial2(t)
    \/ netDial(t)
    \/ SleepDial(t)
    \/ SetDeadline(t)
    \/ CloseBoth(t)

(***************************************************************************)
(* The collaborators: the peers of a proxied pair, the clock, the network. *)
(***************************************************************************)
\* The remote peer sends: io.Copy(lConn, rConn) writes the bytes to lConn, which
\* changes nothing here, or its Write fails and it returns.
PeerRSend(t) ==
    /\ Running /\ pc[t] = "copy" /\ px[t].cp1 = "run"
    /\ px' = [px EXCEPT ![t].cp1 = IF LWriteFails(t) THEN "werr" ELSE @]
    /\ UNCHANGED <<closed, sshClient, listener, mx, wg, crashed, orient, sess, lis,
                   kind, pc, ret, lh, cli, nStart, nConn, connected>>

\* The local peer sends: io.Copy(rConn, lConn) writes the bytes to rConn, which
\* changes nothing here, or its Write fails and it returns.
PeerLSend(t) ==
    /\ Running /\ pc[t] = "copy" /\ px[t].cp2 = "run"
    /\ px' = [px EXCEPT ![t].cp2 = IF RWriteFails(t) THEN "werr" ELSE @]
    /\ UNCHANGED <<closed, sshClient, listener, mx, wg, crashed, orient, sess, lis,
                   kind, pc, ret, lh, cli, nStart, nConn, connected>>

\* A peer closes its end of the connection.
PeerLClose(t) ==
    /\ Running /\ pc[t] = "copy" /\ px[t].cp2 = "run"
    /\ px' = [px EXCEPT ![t].cp2 = "eof"]
    /\ UNCHANGED <<closed, sshClient, listener, mx, wg, crashed, orient, sess, lis,
                   kind, pc, ret, lh, cli, nStart, nConn, connected>>

PeerRClose(t) ==
    /\ Running /\ pc[t] = "copy" /\ px[t].cp1 = "run"
    /\ px' = [px EXCEPT ![t].cp1 = "eof"]
    /\ UNCHANGED <<closed, sshClient, listener, mx, wg, crashed, orient, sess, lis,
                   kind, pc, ret, lh, cli, nStart, nConn, connected>>

\* The deadline of line 236 / 321 (c.ioTimeout after it was set) passes.
DeadlineExpires(t) ==
    /\ Running /\ pc[t] = "copy" /\ px[t].dl = "set" /\ px[t].cp2 = "run"
    /\ px' = [px EXCEPT ![t].cp2 = "timeout"]
    /\ UNCHANGED <<closed, sshClient, listener, mx, wg, crashed, orient, sess, lis,
                   kind, pc, ret, lh, cli, nStart, nConn, connected>>

\* The connection under an open secure session is lost: the session is stale.
SessionLost(i) ==
    /\ Running /\ sess[i] = "ok"
    /\ sess' = [sess EXCEPT ![i] = "stale"]
    /\ UNCHANGED <<closed, sshClient, listener, mx, wg, crashed, orient, lis,
                   kind, pc, ret, lh, px, cli, nStart, nConn, connected>>

Peers(t) ==
    \/ PeerRSend(t)
    \/ PeerLSend(t)
    \/ PeerLClose(t)
    \/ PeerRClose(t)

Goroutines ==
    \/ \E t \in Tasks : sshConnect(t) \/ Supervisor(t) \/ Proxy(t)
    \/ \E t \in Tasks : Peers(t) \/ DeadlineExpires(t)
    \/ \E i \in Sess : SessionLost(i)

Next == Client \/ Goroutines

Spec == Init /\ [][Next]_vars

(***************************************************************************)
(* Fairness.  The Go scheduler runs every goroutine that can run, the      *)
(* mutex is handed to every waiter in turn (starvation mode), a call of    *)
(* Close that has begun goes on, and time passes, so a deadline that is    *)
(* set expires.  Nothing obliges a peer to send or to close, a connection  *)
(* to arrive, or the client to call anything.                              *)
(***************************************************************************)
CloseSteps ==
    \/ Close_closeListener
    \/ Close_closeListener_Close
    \/ Close_closeListener_Nil
    \/ Close_closeSSH
    \/ Close_closeSSH_Close
    \/ Close_closeSSH_Nil
    \/ Close_Wait

Fairness ==
    /\ \A t \in Tasks : WF_vars(sshConnect(t) \/ Loop(t) \/ Proxy(t))
    /\ \A t \in Tasks : SF_vars(sshConnect_Lock(t))
    /\ \A t \in Tasks : WF_vars(DeadlineExpires(t))
    /\ WF_vars(CloseSteps)

\* main's tunnel, started once, with FairConns connections to arrive.
InitFair ==
    /\ NewSSHTunnel
    /\ orient \in {"forward", "reverse"}
    /\ nStart = 1
    /\ nConn = FairConns

FairSpec == InitFair /\ [][Next]_vars /\ Fairness


(***************************************************************************)
(* The claims.                                                             *)
(***************************************************************************)
Loops == {t \in Tasks : kind[t] = "loop"}
Proxies == {t \in Tasks : kind[t] = "proxy"}
\* A goroutine that was started and has not returned.
Live(t) == kind[t] # "none" /\ pc[t] # "done"
\* The client is not inside Close and a call of Close has returned.
CloseReturned == cli.pc = "idle" /\ cli.done > 0
\* Between the Lock and the Unlock of sshConnect.
InConnect(t) == pc[t] \in {"sc_chk", "sc_close", "sc_nil", "sc_dial"}

\* C1: Close returns only when every supervisory goroutine and every proxy goroutine
\* started so far has returned: the step in which Close's wg.Wait returns is taken
\* only in a state with no live goroutine.
C1_CloseWaitsForAll ==
    [][(cli.pc = "wait" /\ cli'.pc = "idle") => \A t \in Tasks : ~Live(t)]_vars

\* Close has returned on a tunnel that ran a supervisory goroutine and a proxy goroutine.
C1_Witness == CloseReturned /\ Loops # {} /\ Proxies # {}

\* C3: no goroutine calls Dial or Listen on a nil session handle or Accept on a nil
\* listener.
C3_NoNilHandleUse ==
    crashed \notin {"sshClient.Dial", "sshClient.Listen", "listener.Accept"}

\* C4: at most one goroutine is between the Lock and the Unlock of sshConnect.
C4_OneConnect == Cardinality({t \in Tasks : InConnect(t)}) <= 1

\* Two proxy goroutines saw their Dial fail: one is inside sshConnect, about to dial
\* the new session, while the other waits for the mutex.
C4_Witness ==
    \E t, u \in Proxies : t # u /\ pc[t] = "sc_dial" /\ pc[u] = "sc_lock" /\ mx

\* C7: starting a started tunnel has no effect: at most one supervisory goroutine
\* exists.
C7_OneLoop == Cardinality(Loops) <= 1

\* C10: once Close has returned, no listener the tunnel bound is open.
C10_NoOpenListener == CloseReturned => \A l \in Lis : lis[l].st # "open"


\* C5: in forward orientation, a proxy goroutine whose first Dial failed called
\* sshConnect once and dials once more; that Dial returns, and then either the pair is
\* proxied or the accepted connection is closed and no copy was started.
C5_RetryOnce ==
    \A t \in Proxies : orient = "forward" /\ px[t].reconns > 0 =>
        /\ px[t].reconns = 1 /\ px[t].tries <= 2
        /\ pc[t] # "panic"
        /\ pc[t] \in {"setdl", "copy"} => px[t].lconn = "open" /\ px[t].rconn = "open"
        /\ pc[t] = "sleep" =>
              px[t].lconn = "closed" /\ px[t].rconn = "none" /\ px[t].cp1 = "idle"

InSshConnect(t) == pc[t] = "sc_lock" \/ InConnect(t)

\* C2: every call of Close returns (unless the process has panicked).
C2_CloseReturns == (cli.pc # "idle") ~> (cli.pc = "idle" \/ crashed # "no")

\* C6: when the tunnel is started and not closed, the last connect has failed and the
\* session handle is nil, another connect is attempted (unless the tunnel is closed
\* or the process has panicked in the meantime).
C6_ConnectRetried ==
    (/\ \E t \in Loops : pc[t] # "done" /\ ~InSshConnect(t)
     /\ ~closed /\ sshClient = 0
     /\ \A t \in Tasks : ~InSshConnect(t))
    ~> ((\E t \in Tasks : InSshConnect(t)) \/ closed \/ crashed # "no")

\* C8: every proxy goroutine that is started returns, with both its connections
\* closed (unless the process has panicked).
C8_AllClosed ==
    \A t \in Tasks :
        (kind[t] = "proxy") ~>
        ((pc[t] = "done" /\ px[t].lconn # "open" /\ px[t].rconn # "open")
         \/ crashed # "no")

\* C9: a pair whose deadline has passed while neither peer has closed, on a tunnel that
\* is not closed, is closed on both sides (unless the remote peer closes, Close is
\* called or the process panics after all).  Relayed bytes change no state: a run in
\* which the pair never leaves this state is one in which no byte is relayed.
C9_IdleClosed ==
    \A t \in Tasks :
        (pc[t] = "copy" /\ px[t].cp2 = "timeout" /\ px[t].cp1 = "run" /\ ~closed)
        ~> (\/ pc[t] = "done" /\ px[t].lconn = "closed" /\ px[t].rconn = "closed"
            \/ px[t].cp1 = "eof" \/ closed \/ crashed # "no")

\* A secure session the tunnel established that is not closed.
OpenSess == {i \in Sess : sess[i] \in {"ok", "stale"}}

\* C11: when Close returns, the session handle is nil and no secure session that the
\* tunnel established is open.
C11_NoOpenSession ==
    [][(cli.pc = "wait" /\ cli'.pc = "idle") => (sshClient = 0 /\ OpenSess = {})]_vars

\* C12: the supervisory goroutine calls netListen or sshListen, and so binds a
\* listener, only after a connect has succeeded.
C12_ListenAfterConnect ==
    [][\A t \in Loops :
          (pc[t] \in {"listen", "sl_chk"} /\ pc'[t] # pc[t]) => connected]_vars

\* The listeners bound by the tunnel that are open.
OpenLis == {l \in Lis : lis[l].st = "open"}

\* The supervisory goroutine t is in netListen or sshListen.
InListen(t) == pc[t] \in {"listen", "sl_chk", "sl_listen1", "sl_listen2"}

\* C13: in a tunnel started once at most one listener is open, the supervisory
\* goroutine attempts a listen only when the listener it had is closed, and after an
\* accept failure it attempts a listen again (unless the tunnel is closed or the
\* process has panicked).
C13_OneListener ==
    /\ [](Cardinality(Loops) <= 1 =>
            /\ Cardinality(OpenLis) <= 1
            /\ \A t \in Loops : InListen(t) => OpenLis = {})
    /\ \A t \in Tasks :
          (kind[t] = "loop" /\ pc[t] = "cl_chk")
          ~> (InListen(t) \/ closed \/ crashed # "no")

\* An accept has failed on a tunnel that is not closed: the supervisory goroutine has
\* closed its listener and sleeps before it listens again.
C13_Witness ==
    \E t \in Loops : pc[t] = "sleepA" /\ ~closed /\ listener = 0 /\ OpenLis = {}

\* C14: when a copy of a pair has been started, a deadline is set on lConn and on
\* rConn.
C14_DeadlineBothSides ==
    \A t \in Tasks :
        (px[t].cp1 # "idle" \/ px[t].cp2 # "idle") =>
            px[t].dl = "set" /\ px[t].rdl = "set"

\* Both copies of proxy goroutine t have returned / neither has been started.
BothOver(t) == px[t].cp1 \notin {"idle", "run"} /\ px[t].cp2 \notin {"idle", "run"}
NoneStarted(t) == px[t].cp1 = "idle" /\ px[t].cp2 = "idle"

\* C15: a proxy goroutine that waits for its copies has started both and holds both
\* connections open; it closes a connection only when that connection is open, and
\* either both copies have returned or none was started (the dial failed); when it
\* returns after the copies both connections are closed.
C15_CloseAfterCopies ==
    /\ [](\A t \in Tasks : pc[t] = "copy" =>
             /\ px[t].cp1 # "idle" /\ px[t].cp2 # "idle"
             /\ px[t].lconn = "open" /\ px[t].rconn = "open")
    /\ [][\A t \in Tasks :
            /\ (px[t].lconn # "closed" /\ px'[t].lconn = "closed") =>
                  px[t].lconn = "open" /\ (BothOver(t) \/ NoneStarted(t))
            /\ (px[t].rconn # "closed" /\ px'[t].rconn = "closed") =>
                  px[t].rconn = "open" /\ (BothOver(t) \/ NoneStarted(t))
            /\ (pc[t] = "copy" /\ pc'[t] = "done") =>
                  px'[t].lconn = "closed" /\ px'[t].rconn = "closed"]_vars

\* One proxy goroutine has returned with both connections closed while the copies of
\* another have ended, one by a failed Write and one by the deadline.
C15_Witness ==
    \E t, u \in Proxies :
        /\ pc[t] = "done" /\ px[t].lconn = "closed" /\ px[t].rconn = "closed"
        /\ pc[u] = "copy" /\ px[u].cp1 = "werr" /\ px[u].cp2 = "timeout"

\* C16: when the peer of either side of a proxied pair has closed its connection,
\* the proxy goroutine closes both sides (unless the process has panicked).
C16_PeerClosePropagates ==
    \A t \in Tasks :
        (pc[t] = "copy" /\ (px[t].cp1 = "eof" \/ px[t].cp2 = "eof"))
        ~> (\/ pc[t] = "done" /\ px[t].lconn = "closed" /\ px[t].rconn = "closed"
            \/ crashed # "no")

\* A step of proxy goroutine t, or the end of one of its copies.
ProxyStep(t) ==
    \/ pc'[t] # pc[t]
    \/ pc[t] = "copy" /\ px'[t] # px[t] /\ UNCHANGED <<sess, cli>>

\* C17: on a tunnel that is not closed, no step of a proxy goroutine (a failed dial,
\* its reconnect, the end of a copy by an error or a timeout) changes the listener
\* handle, closes or binds a listener, moves a supervisory goroutine or ends the
\* process.
C17_ProxyLeavesListener ==
    [][\A t \in Proxies : (~closed /\ ProxyStep(t)) =>
          /\ listener' = listener
          /\ OpenLis' = OpenLis
          /\ \A u \in Loops : pc'[u] = pc[u]
          /\ crashed' = "no"]_vars

\* A connection arrives at the listener that supervisory goroutine t is blocked in
\* Accept on.
Arrives(t) == pc[t] = "accepting" /\ nConn > 0 /\ NewTask \in Tasks /\ CanArrive(lh[t])

\* C18: whatever the proxy goroutines are doing, a supervisory goroutine in Accept
\* takes a connection that arrives and starts its proxy goroutine, and in a tunnel
\* started once it never waits for the mutex while a proxy goroutine is in sshConnect.
C18_AcceptNotBlocked ==
    \A t \in Loops :
        /\ (Running /\ Arrives(t)) => ENABLED accept_Ok(t)
        /\ (Cardinality(Loops) <= 1 /\ pc[t] = "sc_lock") =>
               \A p \in Proxies : ~InConnect(p)

\* On a tunnel that is not closed a proxy goroutine is in its reconnect, holding the
\* mutex in ssh.Dial, and the supervisory goroutine can accept the next connection.
C18_Witness ==
    \E t \in Loops, p \in Proxies :
        /\ ~closed /\ Running /\ Arrives(t) /\ ENABLED accept_Ok(t)
        /\ pc[p] = "sc_dial" /\ mx

\* C19: every step that closes a secure session or writes the session handle is a
\* step of a goroutine that holds the mutex, inside sshConnect.
C19_HandleUnderMutex ==
    [][(\/ sshClient' # sshClient
        \/ \E i \in Sess : sess[i] \in {"ok", "stale"} /\ sess'[i] = "closed")
       => (mx /\ \E t \in Tasks : InConnect(t) /\ pc'[t] # pc[t])]_vars

\* C20: the closeSSH of a proxy goroutine's reconnect never closes a healthy session:
\* the session it closes is one on which a Dial fails.
C20_ReconnectKeepsHealthy ==
    [][\A t \in Proxies :
          (pc[t] = "sc_close" /\ pc'[t] # pc[t] /\ sshClient # 0)
          => sess[sshClient] # "ok"]_vars

====
